---------------------------- MODULE Spec2Model ----------------------------
(***************************************************************************)
(* Model of pyeto_crop/fao_crop.py: the FAO-56 Penman-Monteith chain of    *)
(* pure functions lat, pa, ra, d, zom, zoh, rs, LAIactive, LAI and         *)
(* penman_monteith, called by a number of callers.                         *)
(*                                                                         *)
(* Numbers.  A float is modelled by an exact rational <<n, dn>> (dn > 0,   *)
(* lowest terms) or by one of the IEEE special values the code can         *)
(* produce: +inf, -inf, nan.  Rounding is not modelled; a zero is +0.0.    *)
(* np.log of a positive rational other than 1 is kept symbolically         *)
(* (kind "ln": coefficient times a product of logarithms), its sign being  *)
(* the sign of the argument minus 1.  A Python exception is the value of   *)
(* kind "raise".                                                           *)
(*                                                                         *)
(* A division by zero depends on the operands' type: two Python numbers    *)
(* raise ZeroDivisionError, a numpy operand (np.float64, ndarray element)  *)
(* gives inf or nan with a warning.  A frame's field np says which kind    *)
(* of numbers the caller passed.                                           *)
(***************************************************************************)
EXTENDS Integers, Sequences, FiniteSets, TLC

VARIABLES frame, result, defaults

vars == <<frame, result, defaults>>

---------------------------------------------------------------------------
(* Bounds of the model *)

NCallers == 2
MaxH == 12
MaxZ == 2
MaxL == 3
MaxP == 2

Callers == 1..NCallers

---------------------------------------------------------------------------
(* Exact rationals *)

Abs(x) == IF x < 0 THEN -x ELSE x

Sgn(x) == IF x < 0 THEN -1 ELSE IF x = 0 THEN 0 ELSE 1

RECURSIVE GCD(_, _)
GCD(a, b) == IF b = 0 THEN a ELSE GCD(b, a % b)

Q(n, dn) ==
    LET g == GCD(Abs(n), Abs(dn))
        s == IF dn < 0 THEN -1 ELSE 1
    IN  <<s * (n \div g), s * (dn \div g)>>

RNeg(p) == <<-p[1], p[2]>>

RAdd(p, q) ==
    LET g == GCD(p[2], q[2])
        l == (p[2] \div g) * q[2]
    IN  Q(p[1] * (l \div p[2]) + q[1] * (l \div q[2]), l)

RMul(p, q) ==
    LET g1 == GCD(Abs(p[1]), q[2])
        g2 == GCD(Abs(q[1]), p[2])
    IN  IF p[1] = 0 \/ q[1] = 0 THEN <<0, 1>>
        ELSE <<(p[1] \div g1) * (q[1] \div g2), (p[2] \div g2) * (q[2] \div g1)>>

RInv(p) == IF p[1] > 0 THEN <<p[2], p[1]>> ELSE <<-p[2], -p[1]>>

RSign(p) == Sgn(p[1])

RLess(p, q) == RSign(RAdd(p, RNeg(q))) < 0

---------------------------------------------------------------------------
(* Float values and the outcomes of an expression *)

F(n, dn) == [k |-> "fin", v |-> Q(n, dn)]

Fin(q) == [k |-> "fin", v |-> q]

Inf(s) == [k |-> "inf", s |-> s]

NaN == [k |-> "nan"]

Raise(e) == [k |-> "raise", exc |-> e]

Ln(c, args) == [k |-> "ln", c |-> c, args |-> args]

RECURSIVE LnArgsSign(_)
LnArgsSign(args) ==
    IF args = <<>> THEN 1
    ELSE RSign(RAdd(Head(args), <<-1, 1>>)) * LnArgsSign(Tail(args))

\* Sign of a value that is not nan and not an exception.
XSign(x) ==
    CASE x.k = "fin" -> RSign(x.v)
      [] x.k = "inf" -> x.s
      [] x.k = "ln"  -> RSign(x.c) * LnArgsSign(x.args)

IsZero(x) == x.k = "fin" /\ x.v[1] = 0

XNeg(x) ==
    CASE x.k = "fin" -> Fin(RNeg(x.v))
      [] x.k = "inf" -> Inf(-x.s)
      [] OTHER       -> x

\* float.__add__ / np.float64.__add__
XAdd(x, y) ==
    CASE x.k = "raise" -> x
      [] y.k = "raise" -> y
      [] x.k = "nan" \/ y.k = "nan" -> NaN
      [] x.k = "inf" /\ y.k = "inf" -> IF x.s = y.s THEN x ELSE NaN
      [] x.k = "inf" -> x
      [] y.k = "inf" -> y
      [] x.k = "fin" /\ y.k = "fin" -> Fin(RAdd(x.v, y.v))

XSub(x, y) == XAdd(x, XNeg(y))

\* float.__mul__ / np.float64.__mul__
XMul(x, y) ==
    CASE x.k = "raise" -> x
      [] y.k = "raise" -> y
      [] x.k = "nan" \/ y.k = "nan" -> NaN
      [] IsZero(x) \/ IsZero(y) ->
            IF x.k = "inf" \/ y.k = "inf" THEN NaN ELSE F(0, 1)
      [] x.k = "inf" \/ y.k = "inf" -> Inf(XSign(x) * XSign(y))
      [] x.k = "fin" /\ y.k = "fin" -> Fin(RMul(x.v, y.v))
      [] x.k = "ln" /\ y.k = "fin" -> Ln(RMul(x.c, y.v), x.args)
      [] x.k = "fin" /\ y.k = "ln" -> Ln(RMul(x.v, y.c), y.args)
      [] x.k = "ln" /\ y.k = "ln" -> Ln(RMul(x.c, y.c), x.args \o y.args)

\* x / y.  np: one operand is a numpy number, so a zero divisor gives
\* inf or nan; two Python numbers raise ZeroDivisionError.
XDiv(x, y, np) ==
    CASE x.k = "raise" -> x
      [] y.k = "raise" -> y
      [] x.k = "nan" \/ y.k = "nan" -> NaN
      [] IsZero(y) ->
            IF ~np THEN Raise("ZeroDivisionError")
            ELSE IF IsZero(x) THEN NaN
            ELSE Inf(XSign(x))
      [] y.k = "inf" -> IF x.k = "inf" THEN NaN ELSE F(0, 1)
      [] x.k = "inf" -> Inf(x.s * XSign(y))
      [] x.k = "fin" /\ y.k = "fin" -> Fin(RMul(x.v, RInv(y.v)))
      [] x.k = "ln" /\ y.k = "fin" -> Ln(RMul(x.c, RInv(y.v)), x.args)

\* np.log: nan below zero, -inf at zero, always a numpy number.
XLog(x) ==
    CASE x.k = "raise" -> x
      [] x.k = "nan" -> NaN
      [] x.k = "inf" -> IF x.s > 0 THEN x ELSE NaN
      [] x.k = "fin" ->
            IF RSign(x.v) < 0 THEN NaN
            ELSE IF RSign(x.v) = 0 THEN Inf(-1)
            ELSE IF x.v = <<1, 1>> THEN F(0, 1)
            ELSE Ln(<<1, 1>>, <<x.v>>)

IsValue(x) == x.k \in {"fin", "ln"}

---------------------------------------------------------------------------
(* Literals of the source *)

SecondsPerDay == 86400

DefaultRs == 78

DefaultZh == 2

DefaultZm == 10

Omitted == [k |-> "omitted"]

\* The default values of the def statements (each function's __defaults__).
ModuleDefaults ==
    [ra  |-> [h |-> F(12, 100), zh |-> F(DefaultZh, 1), zm |-> F(DefaultZm, 1),
              k |-> F(41, 100)],
     d   |-> [h |-> F(12, 100)],
     zom |-> [h |-> F(12, 100)],
     LAI |-> [h |-> F(12, 100)],
     penman_monteith |->
             [rs |-> F(DefaultRs, 1), cp |-> F(1013, 1000000), shf |-> F(0, 1)]]

\* Binding of a parameter: the argument, or the default when it is omitted.
Bind(arg, dflt) == IF arg = Omitted THEN dflt ELSE arg

---------------------------------------------------------------------------
(* The functions of fao_crop.py *)

lat(t) == XSub(F(2501, 1000), XMul(XMul(F(2361, 1000), F(1, 1000)), t))

pa(pres, t, np) ==
    XDiv(pres, XMul(XMul(F(101, 100), XAdd(t, F(273, 1))), F(287, 1000)), np)

\* ra with the two roughness lengths exchanged.
ra_swapped(a, np) ==
    LET l1 == XLog(XDiv(XSub(a.zm, a.d), a.zoh, np))
        l2 == XLog(XDiv(XSub(a.zh, a.d), a.zom, np))
    IN  XDiv(XMul(l1, l2), XMul(XMul(a.k, a.k), a.ws), TRUE)

ra(a, np) ==
    LET l1 == XLog(XDiv(XSub(a.zm, a.d), a.zom, np))
        l2 == XLog(XDiv(XSub(a.zh, a.d), a.zoh, np))
    IN  XDiv(XMul(l1, l2), XMul(XMul(a.k, a.k), a.ws), TRUE)

\* d under integer division of 2 by 3 (Python 2's "/").
d_intdiv(h) == XMul(F(0, 1), h)

d(h) == XMul(F(2, 3), h)

zom(h) == XMul(F(123, 1000), h)

zoh(z) == XMul(F(1, 10), z)

rs(lai_active, rl, np) == XDiv(rl, lai_active, np)

LAIactive(lai) == XMul(F(1, 2), lai)

LAI(h) == XMul(F(24, 1), h)

\* Lines 167-168: the two terms and the reciprocal of penman_monteith.
pm_a1(a, np) ==
    XAdd(XDiv(XMul(a.delta_svp, XSub(a.net_rad, a.shf)), F(SecondsPerDay, 1), np),
         XMul(XMul(a.pa, a.cp), XDiv(XSub(a.svp, a.avp), a.ra, np)))

\* a2 with the psychrometric term subtracted.
pm_a2_minus(a, np) ==
    XSub(a.delta_svp, XMul(a.psy, XAdd(F(1, 1), XDiv(a.rs, a.ra, np))))

pm_a2(a, np) ==
    XAdd(a.delta_svp, XMul(a.psy, XAdd(F(1, 1), XDiv(a.rs, a.ra, np))))

\* a3 from the module's lat(t) instead of the parameter lat that shadows it.
pm_a3_global(a, np) == XDiv(F(1, 1), lat(a.t), np)

pm_a3(a, np) == XDiv(F(1, 1), a.lat, np)

\* The return statement without the day-length factor.
penman_monteith_nofactor(a, np) ==
    XMul(XDiv(pm_a1(a, np), pm_a2(a, np), np), pm_a3(a, np))

penman_monteith(a, np) ==
    XMul(XMul(XDiv(pm_a1(a, np), pm_a2(a, np), np), pm_a3(a, np)),
         F(SecondsPerDay, 1))

---------------------------------------------------------------------------
(* Calls: a caller binds the arguments to a frame, the body runs, the      *)
(* frame's result is handed back.                                          *)

NoCall == [fn |-> "none"]

None == [k |-> "none"]

Pending == [k |-> "pending"]

\* The parameters of each def, bound to the arguments or to the defaults.
BindArgs(fn, args, defs) ==
    CASE fn = "ra" ->
            [d |-> args.d, zom |-> args.zom, zoh |-> args.zoh, ws |-> args.ws,
             h  |-> Bind(args.h, defs.ra.h),
             zh |-> Bind(args.zh, defs.ra.zh),
             zm |-> Bind(args.zm, defs.ra.zm),
             k  |-> Bind(args.k, defs.ra.k)]
      [] fn = "d"   -> [h |-> Bind(args.h, defs.d.h)]
      [] fn = "zom" -> [h |-> Bind(args.h, defs.zom.h)]
      [] fn = "LAI" -> [h |-> Bind(args.h, defs.LAI.h)]
      [] fn = "penman_monteith" ->
            [lat |-> args.lat, net_rad |-> args.net_rad, t |-> args.t,
             ws |-> args.ws, svp |-> args.svp, avp |-> args.avp,
             delta_svp |-> args.delta_svp, d |-> args.d, psy |-> args.psy,
             ra |-> args.ra, pa |-> args.pa, pres |-> args.pres,
             rs  |-> Bind(args.rs, defs.penman_monteith.rs),
             cp  |-> Bind(args.cp, defs.penman_monteith.cp),
             shf |-> Bind(args.shf, defs.penman_monteith.shf)]
      [] OTHER -> args

\* The value a frame returns: the return statement of its function.
Body(f) ==
    CASE f.fn = "lat" -> lat(f.a.t)
      [] f.fn = "pa"  -> pa(f.a.pres, f.a.t, f.np)
      [] f.fn = "ra"  -> ra(f.a, f.np)
      [] f.fn = "d"   -> d(f.a.h)
      [] f.fn = "zom" -> zom(f.a.h)
      [] f.fn = "zoh" -> zoh(f.a.zom)
      [] f.fn = "rs"  -> rs(f.a.LAIactive, f.a.rl, f.np)
      [] f.fn = "LAIactive" -> LAIactive(f.a.LAI)
      [] f.fn = "LAI" -> LAI(f.a.h)
      [] f.fn = "penman_monteith" -> penman_monteith(f.a, f.np)

\* A caller with no call in progress.
Idle(c) == frame[c] = NoCall

\* A body that keeps its last rs in the module, as the new default.
DefaultsAfter_cached(f, defs) ==
    IF f.fn = "penman_monteith" /\ f.args.rs # Omitted
    THEN [defs EXCEPT !.penman_monteith.rs = F(DefaultRs + 1, 1)]
    ELSE defs

\* What a call leaves of the module's state: no body assigns a global, a
\* default or an attribute.
DefaultsAfter(f, defs) == defs

Call(c, fn, np, args) ==
    /\ Idle(c)
    /\ frame' = [frame EXCEPT ![c] =
                    [fn |-> fn, np |-> np, args |-> args,
                     a |-> BindArgs(fn, args, defaults)]]
    /\ result' = [result EXCEPT ![c] = Pending]
    /\ UNCHANGED defaults

call_lat(c, t) == Call(c, "lat", FALSE, [t |-> t])

call_pa(c, np, pres, t) == Call(c, "pa", np, [pres |-> pres, t |-> t])

call_ra(c, np, args) == Call(c, "ra", np, args)

call_d(c, h) == Call(c, "d", FALSE, [h |-> h])

call_zom(c, h) == Call(c, "zom", FALSE, [h |-> h])

call_zoh(c, z) == Call(c, "zoh", FALSE, [zom |-> z])

call_rs(c, np, la, rl) == Call(c, "rs", np, [LAIactive |-> la, rl |-> rl])

call_LAIactive(c, lai) == Call(c, "LAIactive", FALSE, [LAI |-> lai])

call_LAI(c, h) == Call(c, "LAI", FALSE, [h |-> h])

call_penman_monteith(c, np, args) == Call(c, "penman_monteith", np, args)

Return(c) ==
    /\ result[c].k = "pending"
    /\ result' = [result EXCEPT ![c] = Body(frame[c])]
    /\ defaults' = DefaultsAfter(frame[c], defaults)
    /\ UNCHANGED frame

\* The caller takes the returned value (or the exception) and drops the
\* frame; nothing of the call is kept.
Consume(c) ==
    /\ frame[c] # NoCall
    /\ result[c].k # "pending"
    /\ frame' = [frame EXCEPT ![c] = NoCall]
    /\ result' = [result EXCEPT ![c] = None]
    /\ UNCHANGED defaults

Init ==
    /\ frame = [c \in Callers |-> NoCall]
    /\ result = [c \in Callers |-> None]
    /\ defaults = ModuleDefaults

---------------------------------------------------------------------------
(* Spec: one caller, each function over a grid of arguments *)

Ints(lo, hi) == {F(n, 1) : n \in lo..hi}

HGrid == {F(n, dn) : n \in -1..MaxH, dn \in {1, 100}}

TGrid == {F(n - 273, 1) : n \in -MaxL..MaxL} \cup {F(20, 1), F(1060, 1)}

PresGrid == {F(-1, 1), F(0, 1), F(1013, 10)}

LGrid == Ints(-MaxL, MaxL) \cup {F(72, 50)}

RlGrid == {F(-100, 1), F(0, 1), F(100, 1)}

ZGrid == Ints(-1, MaxZ)

RaArgs ==
    [d : ZGrid, zom : ZGrid, zoh : ZGrid, ws : ZGrid,
     h : {Omitted, F(1, 1)}, zh : {Omitted, F(1, 1)},
     zm : {Omitted, F(1, 1)}, k : {Omitted, F(0, 1)}]

PGrid == Ints(-1, MaxP)

PmArgs ==
    [lat : PGrid, ra : PGrid, psy : PGrid, delta_svp : PGrid,
     rs : {Omitted, F(-1, 1), F(0, 1)},
     net_rad : {F(0, 1), F(864, 1)}, shf : {Omitted, F(432, 1)},
     svp : {F(2, 1)}, avp : {F(1, 1), F(3, 1)},
     pa : {F(1, 1), F(2, 1)}, cp : {Omitted, F(1, 1)},
     t : {F(20, 1)}, ws : {F(2, 1)}, d : {F(2, 25)}, pres : {F(1013, 10)}]

Next ==
    \/ Idle(1) /\ \E t \in TGrid : call_lat(1, t)
    \/ Idle(1) /\ \E np \in BOOLEAN, pres \in PresGrid, t \in TGrid :
                    call_pa(1, np, pres, t)
    \/ Idle(1) /\ \E np \in BOOLEAN, args \in RaArgs : call_ra(1, np, args)
    \/ Idle(1) /\ \E h \in HGrid \cup {Omitted} : call_d(1, h)
    \/ Idle(1) /\ \E h \in HGrid \cup {Omitted} : call_zom(1, h)
    \/ Idle(1) /\ \E h \in HGrid : call_zoh(1, zom(h))
    \/ Idle(1) /\ \E np \in BOOLEAN, la \in LGrid, rl \in RlGrid :
                    call_rs(1, np, la, rl)
    \/ Idle(1) /\ \E h \in HGrid : call_LAIactive(1, LAI(h))
    \/ Idle(1) /\ \E h \in HGrid \cup {Omitted} : call_LAI(1, h)
    \/ Idle(1) /\ \E np \in BOOLEAN, args \in PmArgs :
                    call_penman_monteith(1, np, args)
    \/ Return(1)
    \/ Consume(1)

Spec == Init /\ [][Next]_vars

---------------------------------------------------------------------------
(* SpecConc: NCallers concurrent callers, a few arguments each *)

\* t, ws, d, pres of penman_monteith: a base set and one change of each.
PmUnused ==
    {[t |-> F(20, 1), ws |-> F(2, 1), d |-> F(2, 25), pres |-> F(1013, 10)],
     [t |-> F(1060, 1), ws |-> F(2, 1), d |-> F(2, 25), pres |-> F(1013, 10)],
     [t |-> F(20, 1), ws |-> F(0, 1), d |-> F(2, 25), pres |-> F(1013, 10)],
     [t |-> F(20, 1), ws |-> F(2, 1), d |-> F(12, 1), pres |-> F(1013, 10)],
     [t |-> F(20, 1), ws |-> F(2, 1), d |-> F(2, 25), pres |-> F(0, 1)]}

PmArgsConc ==
    {[lat |-> F(2, 1), ra |-> rr[1], psy |-> F(1, 1), delta_svp |-> F(1, 1),
      rs |-> rr[2], net_rad |-> F(864, 1), shf |-> Omitted, svp |-> F(2, 1),
      avp |-> F(1, 1), pa |-> F(1, 1), cp |-> Omitted,
      t |-> u.t, ws |-> u.ws, d |-> u.d, pres |-> u.pres] :
        rr \in {<<F(2, 1), Omitted>>, <<F(2, 1), F(DefaultRs, 1)>>,
                 <<F(0, 1), Omitted>>},
        u \in PmUnused}

RaArgsConc ==
    [d : {F(0, 1)}, zom : {F(2, 1)}, zoh : {F(1, 1)}, ws : {F(0, 1), F(2, 1)},
     h : {Omitted, F(1, 1), F(2, 1)}, zh : {Omitted}, zm : {F(1, 1)},
     k : {Omitted}]

HConc == {Omitted, F(1, 1)}

NextConc ==
    \E c \in Callers :
        \/ Idle(c) /\ call_lat(c, F(20, 1))
        \/ Idle(c) /\ \E t \in {F(-273, 1), F(20, 1)} :
                        call_pa(c, FALSE, F(1013, 10), t)
        \/ Idle(c) /\ \E args \in RaArgsConc : call_ra(c, FALSE, args)
        \/ Idle(c) /\ \E h \in HConc : call_d(c, h)
        \/ Idle(c) /\ \E h \in HConc : call_zom(c, h)
        \/ Idle(c) /\ call_zoh(c, zom(F(1, 1)))
        \/ Idle(c) /\ \E la \in {F(0, 1), F(72, 50)} :
                        call_rs(c, FALSE, la, F(100, 1))
        \/ Idle(c) /\ call_LAIactive(c, LAI(F(1, 1)))
        \/ Idle(c) /\ \E h \in HConc : call_LAI(c, h)
        \/ Idle(c) /\ \E args \in PmArgsConc :
                        call_penman_monteith(c, FALSE, args)
        \/ Return(c)
        \/ Consume(c)

SpecConc == Init /\ [][NextConc]_vars

---------------------------------------------------------------------------
(* Vocabulary of the properties *)

\* Caller c holds the frame of a call to fn that has returned or raised.
Returned(c, fn) ==
    /\ frame[c] # NoCall
    /\ frame[c].fn = fn
    /\ result[c].k # "pending"

DomainError == Raise("DomainError")

Pos(x) == RSign(x.v) > 0

Less(x, y) == RLess(x.v, y.v)

LessEq(x, y) == ~RLess(y.v, x.v)

RSub(p, q) == RAdd(p, RNeg(q))

---------------------------------------------------------------------------
(* C1 - aerodynamic resistance: domain errors *)

RaBadInput(a) ==
    \/ IsZero(a.ws)
    \/ LessEq(a.zm, a.d)
    \/ LessEq(a.zh, a.d)
    \/ RSign(a.zoh.v) * RSign(a.zom.v) <= 0

\* C1: ra returns a value only when its logarithm arguments are positive
\* and ws is non-zero; with ws = 0, zm <= d, zh <= d or zoh/zom <= 0 the
\* call ends in a DomainError, and it never returns nan or an infinity.
C1_RaDomainError ==
    \A c \in Callers :
        Returned(c, "ra") =>
            /\ RaBadInput(frame[c].a) => result[c] = DomainError
            /\ IsValue(result[c]) => ~RaBadInput(frame[c].a)
            /\ result[c].k \notin {"nan", "inf"}

---------------------------------------------------------------------------
(* C2 - surface resistance: domain errors *)

\* C2: rs fails with a DomainError for every rl whenever LAIactive <= 0 and
\* returns rl / LAIactive only when LAIactive > 0; no infinite, nan or
\* negative-denominator quotient is returned.
C2_RsDomainError ==
    \A c \in Callers :
        Returned(c, "rs") =>
            /\ ~Pos(frame[c].a.LAIactive) => result[c] = DomainError
            /\ result[c].k \in {"fin", "inf", "nan"} => Pos(frame[c].a.LAIactive)

---------------------------------------------------------------------------
(* C3 - the combiner re-validates ra, lat and term2 *)

PmBadInput(f) ==
    \/ IsZero(f.a.ra)
    \/ ~Pos(f.a.lat)
    \/ IsZero(pm_a2(f.a, TRUE))

\* C3: penman_monteith ends in a DomainError when ra = 0, lat <= 0 or
\* term2 = 0, and returns an ET value only when ra # 0, lat > 0 and
\* term2 # 0; no infinity or nan reaches the caller.
C3_PmRevalidates ==
    \A c \in Callers :
        Returned(c, "penman_monteith") =>
            /\ PmBadInput(frame[c]) => result[c] = DomainError
            /\ result[c].k = "fin" => ~PmBadInput(frame[c])
            /\ result[c].k \notin {"nan", "inf"}

---------------------------------------------------------------------------
(* C4 - air density: domain errors *)

PaBadInput(a) == LessEq(a.t, F(-273, 1)) \/ ~Pos(a.pres)

\* C4: pa fails with a DomainError whenever t <= -273 or pres <= 0, and
\* otherwise returns pres / (1.01 * (t + 273) * 0.287), strictly positive.
C4_PaDomainError ==
    \A c \in Callers :
        Returned(c, "pa") =>
            LET a == frame[c].a
            IN  IF PaBadInput(a) THEN result[c] = DomainError
                ELSE /\ result[c] =
                            Fin(RMul(a.pres.v,
                                     RInv(RMul(RMul(<<101, 100>>,
                                                    RAdd(a.t.v, <<273, 1>>)),
                                               <<287, 1000>>))))
                     /\ Pos(result[c])

---------------------------------------------------------------------------
(* C5 - canopy geometry *)

NonNeg(x) == x.k = "fin" /\ RSign(x.v) >= 0

\* C5: for every crop height h >= 0, zom(h) = 0.123 h, zoh(zom(h)) =
\* 0.1 zom(h), d(h) = (2/3) h, LAI(h) = 24 h, LAIactive(LAI(h)) = 0.5 LAI(h);
\* the five results are non-negative and h = 0 gives zero, not an error.
C5_Geometry ==
    \A c \in Callers :
        /\ Returned(c, "zom") /\ NonNeg(frame[c].a.h) =>
              /\ result[c] = F(123 * frame[c].a.h.v[1], 1000 * frame[c].a.h.v[2])
              /\ NonNeg(result[c])
        /\ Returned(c, "d") /\ NonNeg(frame[c].a.h) =>
              /\ result[c] = F(2 * frame[c].a.h.v[1], 3 * frame[c].a.h.v[2])
              /\ NonNeg(result[c])
        /\ Returned(c, "LAI") /\ NonNeg(frame[c].a.h) =>
              /\ result[c] = F(24 * frame[c].a.h.v[1], frame[c].a.h.v[2])
              /\ NonNeg(result[c])
        /\ Returned(c, "zoh") =>
              \A h \in HGrid :
                  NonNeg(h) /\ frame[c].a.zom = F(123 * h.v[1], 1000 * h.v[2]) =>
                      /\ result[c] = F(123 * h.v[1], 10000 * h.v[2])
                      /\ NonNeg(result[c])
        /\ Returned(c, "LAIactive") =>
              \A h \in HGrid :
                  NonNeg(h) /\ frame[c].a.LAI = F(24 * h.v[1], h.v[2]) =>
                      /\ result[c] = F(12 * h.v[1], h.v[2])
                      /\ NonNeg(result[c])
        /\ \A fn \in {"zom", "d", "LAI", "zoh", "LAIactive"} :
              Returned(c, fn) /\ (\E x \in DOMAIN frame[c].a : IsZero(frame[c].a[x]))
                  => result[c] = F(0, 1)

\* zoh(zom(0.12)) = 0.001476 has been returned.
C5_Witness ==
    /\ Returned(1, "zoh")
    /\ frame[1].a.zom = F(1476, 100000)
    /\ result[1] = F(1476, 1000000)

---------------------------------------------------------------------------
(* C6 - the closed form of penman_monteith *)

One == <<1, 1>>

PmTerm1(a) ==
    RAdd(RMul(RMul(a.delta_svp.v, RSub(a.net_rad.v, a.shf.v)), <<1, SecondsPerDay>>),
         RMul(RMul(RMul(a.pa.v, a.cp.v), RSub(a.svp.v, a.avp.v)), RInv(a.ra.v)))

PmTerm2(a) ==
    RAdd(a.delta_svp.v, RMul(a.psy.v, RAdd(One, RMul(a.rs.v, RInv(a.ra.v)))))

PmET(a) ==
    RMul(RMul(RMul(PmTerm1(a), RInv(PmTerm2(a))), RInv(a.lat.v)),
         <<SecondsPerDay, 1>>)

PmDefined(a) ==
    /\ ~IsZero(a.ra)
    /\ ~IsZero(a.lat)
    /\ PmTerm2(a)[1] # 0

\* C6: with ra # 0, lat # 0 and term2 # 0, penman_monteith returns
\* (term1 / term2) * (1 / lat) * 86400, where rs = 78, cp = 0.001013 and
\* shf = 0 stand for the arguments that are omitted.
C6_ClosedForm ==
    \A c \in Callers :
        Returned(c, "penman_monteith") =>
            LET f == frame[c]
            IN  /\ f.args.rs = Omitted  => f.a.rs = F(78, 1)
                /\ f.args.cp = Omitted  => f.a.cp = F(1013, 1000000)
                /\ f.args.shf = Omitted => f.a.shf = F(0, 1)
                /\ PmDefined(f.a) => result[c] = Fin(PmET(f.a))

\* A call with rs, cp and shf omitted has returned a non-zero ET.
C6_Witness ==
    /\ Returned(1, "penman_monteith")
    /\ frame[1].args.rs = Omitted
    /\ frame[1].args.cp = Omitted
    /\ frame[1].args.shf = Omitted
    /\ frame[1].a.net_rad = F(864, 1)
    /\ PmDefined(frame[1].a)
    /\ result[1].k = "fin"
    /\ ~IsZero(result[1])

---------------------------------------------------------------------------
(* C8 - the sign of the aerodynamic resistance *)

\* The AerodynamicState invariant, with positive roughness lengths and k # 0.
RaStateInv(a) ==
    /\ Less(a.d, a.zm)
    /\ Less(a.d, a.zh)
    /\ Pos(a.ws)
    /\ Pos(a.zom)
    /\ Pos(a.zoh)
    /\ ~IsZero(a.k)

\* C8 as stated: whenever ra returns a value for inputs that satisfy the
\* AerodynamicState invariant, the value is strictly positive.
C8_RaPositive ==
    \A c \in Callers :
        Returned(c, "ra") /\ RaStateInv(frame[c].a) /\ IsValue(result[c])
            => XSign(result[c]) > 0

\* C8 amended: under the AerodynamicState invariant ra returns a value whose
\* sign is the product of the signs of (zm - d - zom) and (zh - d - zoh):
\* positive when both logarithm arguments are on the same side of 1, zero
\* when one of them is 1, negative otherwise.
C8_RaSign ==
    \A c \in Callers :
        Returned(c, "ra") /\ RaStateInv(frame[c].a) =>
            LET a == frame[c].a
            IN  /\ IsValue(result[c])
                /\ XSign(result[c]) =
                       RSign(RSub(RSub(a.zm.v, a.d.v), a.zom.v))
                     * RSign(RSub(RSub(a.zh.v, a.d.v), a.zoh.v))

\* ra has returned a negative resistance for a state that satisfies the
\* invariant: zm - d below zom, zh - d above zoh.
C8_Witness ==
    /\ Returned(1, "ra")
    /\ RaStateInv(frame[1].a)
    /\ Less(XSub(frame[1].a.zm, frame[1].a.d), frame[1].a.zom)
    /\ Less(frame[1].a.zoh, XSub(frame[1].a.zh, frame[1].a.d))
    /\ IsValue(result[1])
    /\ XSign(result[1]) < 0

---------------------------------------------------------------------------
(* C9 - term2 is not zero for physically valid inputs *)

PmPhysical(a) ==
    /\ Pos(a.psy)
    /\ NonNeg(a.delta_svp)
    /\ ~IsZero(a.ra)
    /\ RSign(a.rs.v) * RSign(a.ra.v) >= 0

\* C9: for psy > 0, delta_svp >= 0 and rs/ra >= 0 (ra # 0) the denominator
\* a2 = delta_svp + psy * (1 + rs/ra) is a non-zero number, so a1 / a2 is
\* defined: with lat # 0 the call returns a finite ET.
C9_Term2NonZero ==
    \A c \in Callers :
        Returned(c, "penman_monteith") /\ PmPhysical(frame[c].a) =>
            /\ pm_a2(frame[c].a, frame[c].np).k = "fin"
            /\ ~IsZero(pm_a2(frame[c].a, frame[c].np))
            /\ ~IsZero(frame[c].a.lat) => result[c].k = "fin"

\* A physically valid call at the edge delta_svp = 0, rs = 0 has returned.
C9_Witness ==
    /\ Returned(1, "penman_monteith")
    /\ PmPhysical(frame[1].a)
    /\ IsZero(frame[1].a.delta_svp)
    /\ IsZero(frame[1].a.rs)
    /\ ~frame[1].np
    /\ result[1].k = "fin"

---------------------------------------------------------------------------
(* C7 - no state is shared between calls *)

Done(c) == frame[c] # NoCall /\ result[c].k # "pending"

---------------------------------------------------------------------------
(* C10 - parameters that the bodies never read *)

PmUsed ==
    {"lat", "net_rad", "svp", "avp", "delta_svp", "psy", "ra", "pa", "rs",
     "cp", "shf"}

RaUsed == {"d", "zom", "zoh", "ws", "zh", "zm", "k"}

SameOn(c1, c2, fn, used) ==
    /\ Returned(c1, fn)
    /\ Returned(c2, fn)
    /\ frame[c1].np = frame[c2].np
    /\ \A p \in used : frame[c1].a[p] = frame[c2].a[p]

\* C10: two penman_monteith calls that agree on lat, net_rad, svp, avp,
\* delta_svp, psy, ra, pa, rs, cp and shf return the same ET whatever their
\* t, ws, d and pres; two ra calls that agree on d, zom, zoh, ws, zh, zm and
\* k return the same resistance whatever their h.
C10_UnusedArgs ==
    \A c1, c2 \in Callers :
        /\ SameOn(c1, c2, "penman_monteith", PmUsed) => result[c1] = result[c2]
        /\ SameOn(c1, c2, "ra", RaUsed) => result[c1] = result[c2]

\* Two returned penman_monteith calls differ in t only and agree on the ET.
C10_Witness ==
    /\ SameOn(1, 2, "penman_monteith", PmUsed)
    /\ frame[1].a.t # frame[2].a.t
    /\ result[1].k = "fin"
    /\ result[1] = result[2]

=============================================================================
